---- MODULE Spec2Model ----
(***************************************************************************)
(* Model of lint_rtl (src/linter.py).                                      *)
(*                                                                         *)
(* Text is modelled at token level: a line is a sequence of tokens, where  *)
(* a token is a maximal run of word characters (\w+), a single whitespace  *)
(* character " ", or a single punctuation character.  The source text      *)
(* rtl_code is a sequence of such tokens with "\n" tokens between lines.   *)
(* Each regular expression of the source is translated into a matcher over *)
(* token sequences with the same anchoring, optional groups and priority.  *)
(***************************************************************************)
EXTENDS Integers, Sequences, FiniteSets, TLC

VARIABLES rtl_code, lines, errors, line_num, pc, begin_label,
          future_line_num, evaluated

vars == <<rtl_code, lines, errors, line_num, pc, begin_label,
          future_line_num, evaluated>>

(* Largest number of line samples joined into one input text. *)
MaxLines == 3

----------------------------------------------------------------------------
(* Character classes *)

NL == "\n"

NonWord == {" ", "[", "]", ":", ";", "(", ")", "=", "'", NL}

DigitToks == {"0", "1", "2", "4", "31", "55"}

IsSpace(t) == t = " "

IsWord(t) == t /= "" /\ t \notin NonWord

IsDigits(t) == t \in DigitToks

(* Token at position k of a line, "" beyond either end of the line. *)
At(line, k) == IF k \in 1..Len(line) THEN line[k] ELSE ""

(* \s* covers exactly the positions a..b (none when b < a). *)
Sp(line, a, b) == \A r \in a..b : IsSpace(At(line, r))

----------------------------------------------------------------------------
(* The order in which the checks are written inside the loop body. *)
RuleOrder ==
    <<"scalar", "combination", "port_default", "invalid_assign", "label",
      "misplaced">>

Rules == {RuleOrder[k] : k \in 1..Len(RuleOrder)}

RuleIndex(r) == CHOOSE k \in 1..Len(RuleOrder) : RuleOrder[k] = r

----------------------------------------------------------------------------
(* rtl_code.splitlines(): a line starts at the start of the text and after *)
(* every "\n", and runs up to the next "\n" or the end; a "\n" that ends   *)
(* the text opens no line, and the empty text has no line.                 *)
splitlines(s) ==
    LET starts == {a \in 1..Len(s) : a = 1 \/ s[a - 1] = NL}
    IN [i \in 1..Cardinality(starts) |->
          LET a == CHOOSE x \in starts :
                       Cardinality({b \in starts : b < x}) = i - 1
              e == CHOOSE x \in a..(Len(s) + 1) :
                       /\ (x = Len(s) + 1 \/ s[x] = NL)
                       /\ \A y \in a..(x - 1) : s[y] /= NL
          IN SubSeq(s, a, e - 1)]

----------------------------------------------------------------------------
(* \b(integer|time|real)\b(\s*\[.+:.*\])?\s*(\w+)\s*;                     *)
(* Each matcher states the parses of its pattern: the positions at which   *)
(* the parts of the pattern sit in the line.                               *)

ScalarTypes == {"integer", "time", "real"}

(* \s*(\w+)\s*; from position p, the name (\w+) at position v *)
DeclTail(line, p, v) ==
    /\ v >= p
    /\ IsWord(At(line, v))
    /\ Sp(line, p, v - 1)
    /\ \E t \in (v + 1)..Len(line) : line[t] = ";" /\ Sp(line, v + 1, t - 1)

(* (\s*\[.+:.*\]) then the tail, for a type keyword at position s: c and q *)
(* are the positions of the ":" and of the "]", v that of the name.        *)
RangeParse(line, s, c, q, v) ==
    /\ At(line, c) = ":"
    /\ At(line, q) = "]"
    /\ q > c
    /\ \E b \in (s + 1)..(c - 2) : line[b] = "[" /\ Sp(line, s + 1, b - 1)
    /\ DeclTail(line, q + 1, v)

HasRange(line, s) ==
    \E c \in (s + 1)..Len(line) :
        /\ line[c] = ":"
        /\ \E q \in (c + 1)..Len(line) :
              /\ line[q] = "]"
              /\ \E v \in (q + 1)..Len(line) : RangeParse(line, s, c, q, v)

(* The name in the parse the greedy .+ and .* reach first: rightmost ":",  *)
(* then rightmost "]".                                                     *)
GreedyRangeVar(line, s) ==
    CHOOSE v \in (s + 1)..Len(line) :
        /\ IsWord(line[v])
        /\ \E c \in (s + 1)..v : \E q \in (c + 1)..v :
              /\ RangeParse(line, s, c, q, v)
              /\ \A c2 \in (s + 1)..Len(line) : \A q2 \in (c2 + 1)..Len(line) :
                    (line[c2] = ":" /\ line[q2] = "]"
                       /\ \E v2 \in (q2 + 1)..Len(line) :
                             RangeParse(line, s, c2, q2, v2))
                       => (c2 < c \/ (c2 = c /\ q2 <= q))

PlainVar(line, s) ==
    CHOOSE v \in (s + 1)..Len(line) : DeclTail(line, s + 1, v)

ScalarMatchAt(line, s) ==
    /\ At(line, s) \in ScalarTypes
    /\ \/ HasRange(line, s)
       \/ \E v \in (s + 1)..Len(line) : DeclTail(line, s + 1, v)

(* re.search: the leftmost start that matches; group 2 is tried first. *)
ScalarMatch(line) ==
    IF ~\E s \in 1..Len(line) : ScalarMatchAt(line, s)
    THEN [matched |-> FALSE, group1 |-> "", group2 |-> FALSE, group3 |-> ""]
    ELSE LET s == CHOOSE x \in 1..Len(line) :
                      /\ ScalarMatchAt(line, x)
                      /\ \A t \in 1..(x - 1) : ~ScalarMatchAt(line, t)
         IN IF HasRange(line, s)
            THEN [matched |-> TRUE, group1 |-> line[s], group2 |-> TRUE,
                  group3 |-> line[GreedyRangeVar(line, s)]]
            ELSE [matched |-> TRUE, group1 |-> line[s], group2 |-> FALSE,
                  group3 |-> line[PlainVar(line, s)]]

----------------------------------------------------------------------------
(* \bparameter\s+integer\s+real\b *)
CombinationMatch(line) ==
    \E s \in 1..Len(line) :
        /\ line[s] = "parameter"
        /\ \E i \in (s + 2)..Len(line) :
              /\ line[i] = "integer"
              /\ Sp(line, s + 1, i - 1)
              /\ \E r \in (i + 2)..Len(line) :
                    line[r] = "real" /\ Sp(line, i + 1, r - 1)

----------------------------------------------------------------------------
PortDirs == {"input", "output", "inout"}

(* \s+\w*\s* covers exactly the positions a..b *)
PortGap(line, a, b) ==
    /\ a <= b
    /\ IsSpace(At(line, a))
    /\ \E x \in (a + 1)..(b + 1) :
          /\ Sp(line, a, x - 1)
          /\ (x = b + 1 \/ (IsWord(At(line, x)) /\ Sp(line, x + 1, b)))

(* \bmodule\b.*\((.*\b(input|output|inout)\b\s+\w+\s+\w*\s*=\s*.+)\);     *)
PortDefaultMatch(line) ==
    \E d \in 1..Len(line) :
        /\ line[d] \in PortDirs
        /\ \E o \in 1..(d - 1) :
              line[o] = "(" /\ \E m \in 1..(o - 1) : line[m] = "module"
        /\ \E w \in (d + 2)..Len(line) :
              /\ IsWord(line[w])
              /\ Sp(line, d + 1, w - 1)
              /\ \E e \in (w + 2)..Len(line) :
                    /\ line[e] = "="
                    /\ PortGap(line, w + 1, e - 1)
                    /\ \E r \in (e + 2)..Len(line) :
                          line[r] = ")" /\ At(line, r + 1) = ";"

----------------------------------------------------------------------------
(* \bassign\b\s+\w+\s*=\s*\(.*\)\d+; *)
InvalidAssignMatch(line) ==
    \E a \in 1..Len(line) :
        /\ line[a] = "assign"
        /\ \E w \in (a + 2)..Len(line) :
              /\ IsWord(line[w])
              /\ Sp(line, a + 1, w - 1)
              /\ \E e \in (w + 1)..Len(line) :
                    /\ line[e] = "="
                    /\ Sp(line, w + 1, e - 1)
                    /\ \E o \in (e + 1)..Len(line) :
                          /\ line[o] = "("
                          /\ Sp(line, e + 1, o - 1)
                          /\ \E r \in (o + 1)..Len(line) :
                                /\ line[r] = ")"
                                /\ IsDigits(At(line, r + 1))
                                /\ At(line, r + 2) = ";"

----------------------------------------------------------------------------
(* \bbegin\s*:\s*(\w+)  and  \bend\s*:\s*(\w+) : kw is the keyword at     *)
(* position s, the label (\w+) is at position v.                           *)
LabelParse(line, kw, s, v) ==
    /\ At(line, s) = kw
    /\ IsWord(At(line, v))
    /\ \E c \in (s + 1)..(v - 1) :
          line[c] = ":" /\ Sp(line, s + 1, c - 1) /\ Sp(line, c + 1, v - 1)

LabelMatchAt(line, kw, s) ==
    /\ At(line, s) = kw
    /\ \E v \in (s + 2)..Len(line) : LabelParse(line, kw, s, v)

LabelMatch(line, kw) ==
    IF ~\E s \in 1..Len(line) : LabelMatchAt(line, kw, s)
    THEN [matched |-> FALSE, group1 |-> ""]
    ELSE LET s == CHOOSE x \in 1..Len(line) :
                      /\ LabelMatchAt(line, kw, x)
                      /\ \A t \in 1..(x - 1) : ~LabelMatchAt(line, kw, t)
         IN [matched |-> TRUE,
             group1 |-> line[CHOOSE v \in (s + 2)..Len(line) :
                                 LabelParse(line, kw, s, v)]]

BeginLabelMatch(line) == LabelMatch(line, "begin")

EndLabelMatch(line) == LabelMatch(line, "end")

----------------------------------------------------------------------------
(* \b(input|output|inout)\b\s+\w+\s*\[\d+:\d+\]\s*; *)
MisplacedMatch(line) ==
    \E d \in 1..Len(line) :
        /\ line[d] \in PortDirs
        /\ \E w \in (d + 2)..Len(line) :
              /\ IsWord(line[w])
              /\ Sp(line, d + 1, w - 1)
              /\ \E b \in (w + 1)..Len(line) :
                    /\ line[b] = "["
                    /\ Sp(line, w + 1, b - 1)
                    /\ IsDigits(At(line, b + 1))
                    /\ At(line, b + 2) = ":"
                    /\ IsDigits(At(line, b + 3))
                    /\ At(line, b + 4) = "]"
                    /\ \E t \in (b + 5)..Len(line) :
                          line[t] = ";" /\ Sp(line, b + 5, t - 1)

----------------------------------------------------------------------------
(* Input lines the texts are built from. *)

DeclPlain == <<"integer", " ", "a", ";">>

DeclRange == <<"integer", " ", "[", "31", ":", "0", "]", " ", "b", ";">>

BeginA == <<"begin", " ", ":", " ", "a">>

EndA == <<"end", " ", ":", " ", "a">>

EndB == <<"end", ":", " ", "b">>

BeginEndSame == <<"begin", " ", ":", " ", "a", " ", "end", " ", ":", " ", "b">>

ModuleDefault ==
    <<"module", " ", "m", "(", "input", " ", "xx", " ", "=", " ", "1", "'",
      "b0", ")", ";">>

Multi ==
    <<"parameter", " ", "integer", " ", "real", " ", "x", ";", " ",
      "assign", " ", "y", " ", "=", " ", "(", "4", ")", "55", ";", " ",
      "begin", ":", "b", " ",
      "input", " ", "x", "[", "2", ":", "0", "]", ";">>

LineSamples ==
    {<<>>, DeclPlain, DeclRange, BeginA, EndA, EndB, BeginEndSame,
     ModuleDefault, Multi}

(* The lines of src joined by "\n". *)
RECURSIVE Join(_)
Join(src) ==
    IF src = <<>> THEN <<>>
    ELSE IF Len(src) = 1 THEN src[1]
    ELSE src[1] \o <<NL>> \o Join(Tail(src))

Inputs ==
    {Join(src) : src \in UNION {[1..n -> LineSamples] : n \in 0..MaxLines}}

(* The texts made of the lines that decide where the label scan goes. *)
ScanSamples == {<<>>, BeginA, EndA, EndB, BeginEndSame, Multi}

ScanInputs ==
    {Join(src) : src \in UNION {[1..n -> ScanSamples] : n \in 0..MaxLines}}

----------------------------------------------------------------------------
(* Variants of the definitions below, each changed the way a slip in the    *)
(* code would change it.                                                   *)

(* errors.insert(0, ...) *)
AddErrorFront(errs, e) == <<e>> \o errs

(* at most one tuple is kept for a line *)
AddErrorOncePerLine(errs, e) ==
    IF \E k \in 1..Len(errs) : errs[k].line_number = e.line_number
    THEN errs
    ELSE Append(errs, e)

(* the 0-based index shown, the 1-based index stored *)
ScalarErrorOneBased(ln, type_name, var_name) ==
    [line_number |-> ln + 1,
     message |-> [kind |-> "scalar", line |-> ln,
                  args |-> <<type_name, var_name>>],
     suggestion |-> <<"Remove the bit-range specification", var_name>>]

(* if match: *)
ScalarEmitsOnAnyMatch(m) == m.matched

(* the comparison dropped *)
LabelsDifferAlways(bl, el) == TRUE

(* the break missing: the scan goes on to the later lines *)
AfterBreakContinue(fln) == [pc |-> "scan", future_line_num |-> fln + 1]

(* return in place of break *)
AfterBreakReturn(fln) == [pc |-> "done", future_line_num |-> fln]

(* an else branch on the inner for that reports the open block *)
AfterExhaustedReport(errs, ln, bl) ==
    Append(errs,
           [line_number |-> ln,
            message |-> [kind |-> "label", line |-> ln, args |-> <<bl, "">>],
            suggestion |-> <<"Ensure the labels match">>])

(* The tuples (line_number, error_message, suggestion).  A message is its  *)
(* fixed text (kind), the number printed after "Line", and the names       *)
(* interpolated into it.                                                   *)

ScalarError(ln, type_name, var_name) ==
    [line_number |-> ln,
     message |-> [kind |-> "scalar", line |-> ln,
                  args |-> <<type_name, var_name>>],
     suggestion |-> <<"Remove the bit-range specification", var_name>>]

CombinationError(ln) ==
    [line_number |-> ln,
     message |-> [kind |-> "combination", line |-> ln, args |-> <<>>],
     suggestion |-> <<"Use either 'integer' or 'real'">>]

PortDefaultError(ln) ==
    [line_number |-> ln,
     message |-> [kind |-> "port_default", line |-> ln, args |-> <<>>],
     suggestion |-> <<"Move the default value assignment">>]

InvalidAssignError(ln) ==
    [line_number |-> ln,
     message |-> [kind |-> "invalid_assign", line |-> ln, args |-> <<>>],
     suggestion |-> <<"Use a valid numeric literal format">>]

LabelError(ln, bl, el) ==
    [line_number |-> ln,
     message |-> [kind |-> "label", line |-> ln, args |-> <<bl, el>>],
     suggestion |-> <<"Ensure the labels match">>]

MisplacedError(ln) ==
    [line_number |-> ln,
     message |-> [kind |-> "misplaced", line |-> ln, args |-> <<>>],
     suggestion |-> <<"Declare the bit-range before the variable name">>]

(* errors.append(...) *)
AddError(errs, e) == Append(errs, e)

(* if match.group(2): *)
ScalarEmits(m) == m.group2

(* if begin_label != end_label: *)
LabelsDiffer(bl, el) == bl /= el

(* enumerate(lines[line_num:], line_num + 1): the first value of           *)
(* future_line_num.  The line read with it is lines[line_num:][0].         *)
ScanStart(ln) == ln + 1

(* The element of lines[line_num:] that enumerate pairs with fln: Python   *)
(* index fln - 1, which is position fln of the 1-based sequence.           *)
FutureLine(lns, fln) == lns[fln]

(* break: leaves the inner loop only; control continues after it. *)
AfterBreak(fln) == [pc |-> "misplaced", future_line_num |-> fln]

(* The inner for has no else branch: running out of lines adds nothing. *)
AfterExhausted(errs, ln, bl) == errs

(* The line the outer loop is at (Python lines[line_num]). *)
line == lines[line_num + 1]

----------------------------------------------------------------------------
InitWith(texts) ==
    /\ rtl_code \in texts
    /\ lines = <<>>
    /\ errors = <<>>
    /\ line_num = 0
    /\ pc = "split"
    /\ begin_label = ""
    /\ future_line_num = 0
    /\ evaluated = {}

Init == InitWith(Inputs)

InitScan == InitWith(ScanInputs)

(* errors = []; lines = rtl_code.splitlines() *)
Split ==
    /\ pc = "split"
    /\ lines' = splitlines(rtl_code)
    /\ errors' = <<>>
    /\ line_num' = 0
    /\ pc' = "for"
    /\ UNCHANGED <<rtl_code, begin_label, future_line_num, evaluated>>

(* for line_num, line in enumerate(lines, 0): another line is left *)
ForLine ==
    /\ pc = "for"
    /\ line_num < Len(lines)
    /\ pc' = "scalar"
    /\ UNCHANGED <<rtl_code, lines, errors, line_num, begin_label,
                   future_line_num, evaluated>>

(* the loop is exhausted: return errors *)
Return ==
    /\ pc = "for"
    /\ line_num >= Len(lines)
    /\ pc' = "done"
    /\ UNCHANGED <<rtl_code, lines, errors, line_num, begin_label,
                   future_line_num, evaluated>>

Scalar ==
    /\ pc = "scalar"
    /\ LET match == ScalarMatch(line)
       IN errors' = IF match.matched /\ ScalarEmits(match)
                    THEN AddError(errors,
                                  ScalarError(line_num, match.group1,
                                              match.group3))
                    ELSE errors
    /\ evaluated' = evaluated \cup {<<line_num, "scalar">>}
    /\ pc' = "combination"
    /\ UNCHANGED <<rtl_code, lines, line_num, begin_label, future_line_num>>

Combination ==
    /\ pc = "combination"
    /\ errors' = IF CombinationMatch(line)
                 THEN AddError(errors, CombinationError(line_num))
                 ELSE errors
    /\ evaluated' = evaluated \cup {<<line_num, "combination">>}
    /\ pc' = "port_default"
    /\ UNCHANGED <<rtl_code, lines, line_num, begin_label, future_line_num>>

PortDefault ==
    /\ pc = "port_default"
    /\ errors' = IF PortDefaultMatch(line)
                 THEN AddError(errors, PortDefaultError(line_num))
                 ELSE errors
    /\ evaluated' = evaluated \cup {<<line_num, "port_default">>}
    /\ pc' = "invalid_assign"
    /\ UNCHANGED <<rtl_code, lines, line_num, begin_label, future_line_num>>

InvalidAssign ==
    /\ pc = "invalid_assign"
    /\ errors' = IF InvalidAssignMatch(line)
                 THEN AddError(errors, InvalidAssignError(line_num))
                 ELSE errors
    /\ evaluated' = evaluated \cup {<<line_num, "invalid_assign">>}
    /\ pc' = "label"
    /\ UNCHANGED <<rtl_code, lines, line_num, begin_label, future_line_num>>

(* mismatched_label = re.search(begin ...); if it matched, take the label  *)
(* and enter the inner loop over lines[line_num:].                         *)
Label ==
    /\ pc = "label"
    /\ LET mismatched_label == BeginLabelMatch(line)
       IN IF mismatched_label.matched
          THEN /\ begin_label' = mismatched_label.group1
               /\ future_line_num' = ScanStart(line_num)
               /\ pc' = "scan"
          ELSE /\ pc' = "misplaced"
               /\ UNCHANGED <<begin_label, future_line_num>>
    /\ evaluated' = evaluated \cup {<<line_num, "label">>}
    /\ UNCHANGED <<rtl_code, lines, errors, line_num>>

(* One iteration of the inner loop: search the end label on future_line;   *)
(* on a match compare, possibly append, and break; else go on.             *)
ScanLine ==
    /\ pc = "scan"
    /\ future_line_num <= Len(lines)
    /\ LET end_label_match == EndLabelMatch(FutureLine(lines, future_line_num))
           end_label == end_label_match.group1
       IN IF end_label_match.matched
          THEN /\ errors' = IF LabelsDiffer(begin_label, end_label)
                            THEN AddError(errors,
                                          LabelError(line_num, begin_label,
                                                     end_label))
                            ELSE errors
               /\ pc' = AfterBreak(future_line_num).pc
               /\ future_line_num' = AfterBreak(future_line_num).future_line_num
          ELSE /\ future_line_num' = future_line_num + 1
               /\ UNCHANGED <<errors, pc>>
    /\ UNCHANGED <<rtl_code, lines, line_num, begin_label, evaluated>>

(* The inner loop ran out of lines without a break. *)
ScanExhausted ==
    /\ pc = "scan"
    /\ future_line_num > Len(lines)
    /\ errors' = AfterExhausted(errors, line_num, begin_label)
    /\ pc' = "misplaced"
    /\ UNCHANGED <<rtl_code, lines, line_num, begin_label, future_line_num,
                   evaluated>>

(* The last check of the body, then the next value of line_num. *)
Misplaced ==
    /\ pc = "misplaced"
    /\ errors' = IF MisplacedMatch(line)
                 THEN AddError(errors, MisplacedError(line_num))
                 ELSE errors
    /\ evaluated' = evaluated \cup {<<line_num, "misplaced">>}
    /\ line_num' = line_num + 1
    /\ pc' = "for"
    /\ UNCHANGED <<rtl_code, lines, begin_label, future_line_num>>

Next ==
    \/ Split
    \/ ForLine
    \/ Return
    \/ Scalar
    \/ Combination
    \/ PortDefault
    \/ InvalidAssign
    \/ Label
    \/ ScanLine
    \/ ScanExhausted
    \/ Misplaced

Spec == Init /\ [][Next]_vars

(* The function runs to completion once called: no step waits on anything. *)
FairSpec == InitScan /\ [][Next]_vars /\ WF_vars(Next)

TypeOK ==
    /\ pc \in {"split", "for", "scalar", "combination", "port_default",
               "invalid_assign", "label", "scan", "misplaced", "done"}
    /\ line_num \in 0..Len(lines)
    /\ \A k \in 1..Len(errors) : errors[k].message.kind \in Rules

----------------------------------------------------------------------------
(* Notions the properties are stated with. *)

NumLines == Len(lines)

LineAt(i) == lines[i + 1]

(* Positions in errors of the tuples rule r produced for line i. *)
ErrorsAt(i, r) ==
    {k \in 1..Len(errors) :
        errors[k].line_number = i /\ errors[k].message.kind = r}

LabelErrors == {k \in 1..Len(errors) : errors[k].message.kind = "label"}

(* Index of the first line at or after index i that holds end : M,        *)
(* -1 when there is none.                                                  *)
FirstEndFrom(i) ==
    LET E == {j \in i..(NumLines - 1) : EndLabelMatch(LineAt(j)).matched}
    IN IF E = {} THEN -1 ELSE CHOOSE j \in E : \A k \in E : j <= k

EndLabelAt(j) == EndLabelMatch(LineAt(j)).group1

BeginLines == {i \in 0..(NumLines - 1) : BeginLabelMatch(LineAt(i)).matched}

BeginLabelAt(i) == BeginLabelMatch(LineAt(i)).group1

(* Line i meets rule r's criteria, the label rule's being a begin label   *)
(* whose scan finds an end label that differs.                             *)
Satisfies(r, i) ==
    CASE r = "scalar" ->
            ScalarMatch(LineAt(i)).matched /\ ScalarMatch(LineAt(i)).group2
      [] r = "combination" -> CombinationMatch(LineAt(i))
      [] r = "port_default" -> PortDefaultMatch(LineAt(i))
      [] r = "invalid_assign" -> InvalidAssignMatch(LineAt(i))
      [] r = "label" ->
            /\ i \in BeginLines
            /\ FirstEndFrom(i) /= -1
            /\ BeginLabelAt(i) /= EndLabelAt(FirstEndFrom(i))
      [] r = "misplaced" -> MisplacedMatch(LineAt(i))

(* The pattern rule r searches for is found on line i. *)
PatternFound(r, i) ==
    IF r = "label" THEN i \in BeginLines ELSE Satisfies(r, i)

----------------------------------------------------------------------------
(* C1: the returned sequence is in ascending line order, and tuples of the *)
(* same line are in the order the rules are written.                       *)
C1_LineThenRuleOrder ==
    pc = "done" =>
        \A k \in 1..(Len(errors) - 1) :
            \/ errors[k].line_number < errors[k + 1].line_number
            \/ /\ errors[k].line_number = errors[k + 1].line_number
               /\ RuleIndex(errors[k].message.kind)
                    <= RuleIndex(errors[k + 1].message.kind)

C1_Witness ==
    /\ pc = "done"
    /\ \E k \in 1..(Len(errors) - 2) :
          /\ errors[k].line_number < errors[k + 1].line_number
          /\ errors[k + 1].line_number = errors[k + 2].line_number
          /\ errors[k + 1].message.kind /= errors[k + 2].message.kind

(* C2: the result has at most (lines) x (rules) tuples, a rule giving at   *)
(* most one tuple for a line, the label rule included.                     *)
C2_AtMostOnePerLineAndRule ==
    pc = "done" =>
        /\ Len(errors) <= NumLines * Cardinality(Rules)
        /\ \A i \in 0..(NumLines - 1) : \A r \in Rules :
              Cardinality(ErrorsAt(i, r)) <= 1

C2_Witness ==
    /\ pc = "done"
    /\ \E i \in BeginLines :
          /\ ErrorsAt(i, "label") /= {}
          /\ \E j \in 0..(NumLines - 1) :
                /\ j > FirstEndFrom(i)
                /\ EndLabelMatch(LineAt(j)).matched
                /\ EndLabelAt(j) /= BeginLabelAt(i)

(* C3: the scan for the begin on line i reads only lines i+1 and later:    *)
(* the end-labelled line it stops at is never line i itself, so a line     *)
(* holding both begin : L and end : M is paired with the first             *)
(* end-labelled line after it.                                             *)
C3_ScanStartsAfterBeginLine ==
    /\ (/\ pc = "scan"
        /\ future_line_num <= NumLines
        /\ EndLabelMatch(FutureLine(lines, future_line_num)).matched)
          => future_line_num - 1 >= line_num + 1
    /\ pc = "done" =>
          \A i \in BeginLines :
              EndLabelMatch(LineAt(i)).matched =>
                 (ErrorsAt(i, "label") /= {} <=>
                    /\ FirstEndFrom(i + 1) /= -1
                    /\ EndLabelAt(FirstEndFrom(i + 1)) /= BeginLabelAt(i))

(* C4: for begin : L on line i whose scan first reaches end : M, there is  *)
(* exactly one label tuple when L differs from M, carrying line i and both *)
(* labels, and none when L equals M.                                       *)
C4_MismatchReportedOnBeginLine ==
    pc = "done" =>
        /\ \A i \in BeginLines :
              FirstEndFrom(i) /= -1 =>
                 LET L == BeginLabelAt(i)
                     M == EndLabelAt(FirstEndFrom(i))
                 IN /\ L /= M =>
                          /\ Cardinality(ErrorsAt(i, "label")) = 1
                          /\ \A k \in ErrorsAt(i, "label") :
                                /\ errors[k].message.args = <<L, M>>
                                /\ errors[k].message.line = i
                    /\ L = M => ErrorsAt(i, "label") = {}
        /\ \A k \in LabelErrors : errors[k].line_number \in BeginLines

C4_Witness ==
    /\ pc = "done"
    /\ \E i \in BeginLines :
          /\ FirstEndFrom(i) > i
          /\ BeginLabelAt(i) /= EndLabelAt(FirstEndFrom(i))
          /\ ErrorsAt(i, "label") /= {}
    /\ \E i \in BeginLines :
          /\ FirstEndFrom(i) > i
          /\ BeginLabelAt(i) = EndLabelAt(FirstEndFrom(i))

(* C5: a begin : L with no end-labelled line from its line to the end of   *)
(* the input gets no label tuple.                                          *)
C5_UnterminatedNotReported ==
    pc = "done" =>
        \A i \in BeginLines :
            FirstEndFrom(i) = -1 => ErrorsAt(i, "label") = {}

C5_Witness ==
    /\ pc = "done"
    /\ \E i \in BeginLines : FirstEndFrom(i) = -1 /\ i + 1 < NumLines

(* C6: the scalar rule gives a tuple for a line only when the declaration  *)
(* it matched carries a bit-range, and then exactly one, naming the type   *)
(* and the variable; integer a; gives none, integer [31:0] b; gives one.   *)
C6_ScalarOnlyWithRange ==
    pc = "done" =>
        \A i \in 0..(NumLines - 1) :
            LET m == ScalarMatch(LineAt(i))
            IN /\ ErrorsAt(i, "scalar") /= {} => (m.matched /\ m.group2)
               /\ (m.matched /\ m.group2) =>
                     /\ Cardinality(ErrorsAt(i, "scalar")) = 1
                     /\ \A k \in ErrorsAt(i, "scalar") :
                           errors[k].message.args = <<m.group1, m.group3>>
               /\ LineAt(i) = DeclPlain => ErrorsAt(i, "scalar") = {}
               /\ LineAt(i) = DeclRange =>
                     \E k \in ErrorsAt(i, "scalar") :
                         errors[k].message.args = <<"integer", "b">>

C6_Witness ==
    /\ pc = "done"
    /\ \E i \in 0..(NumLines - 1) : LineAt(i) = DeclPlain
    /\ \E i \in 0..(NumLines - 1) :
          LineAt(i) = DeclRange /\ ErrorsAt(i, "scalar") /= {}

(* C7: the scan stops at the first end-labelled line: it never reads past  *)
(* one, and a label tuple names the label of that first line whatever end  *)
(* labels follow it.                                                       *)
C7_NearestEndDecides ==
    /\ pc = "scan" =>
          \A j \in line_num..(future_line_num - 2) :
              ~EndLabelMatch(LineAt(j)).matched
    /\ pc = "done" =>
          /\ \A k \in LabelErrors :
                LET i == errors[k].line_number
                IN /\ FirstEndFrom(i) /= -1
                   /\ errors[k].message.args[2] = EndLabelAt(FirstEndFrom(i))
          /\ \A i \in BeginLines : Cardinality(ErrorsAt(i, "label")) <= 1

C7_Witness ==
    /\ pc = "done"
    /\ \E i \in BeginLines :
          /\ FirstEndFrom(i) /= -1
          /\ EndLabelAt(FirstEndFrom(i)) /= BeginLabelAt(i)
          /\ ErrorsAt(i, "label") /= {}
          /\ \E j \in (FirstEndFrom(i) + 1)..(NumLines - 1) :
                /\ EndLabelMatch(LineAt(j)).matched
                /\ EndLabelAt(j) = BeginLabelAt(i)

(* C8: a rule gives a tuple for line i exactly when line i meets that      *)
(* rule's own criteria, whatever the other rules found, so a line meeting  *)
(* k rules has exactly k tuples.                                           *)
C8_RulesIndependent ==
    pc = "done" =>
        \A i \in 0..(NumLines - 1) :
            /\ \A r \in Rules :
                  Cardinality(ErrorsAt(i, r)) = IF Satisfies(r, i) THEN 1 ELSE 0
            /\ Cardinality({k \in 1..Len(errors) : errors[k].line_number = i})
                 = Cardinality({r \in Rules : Satisfies(r, i)})

C8_Witness ==
    /\ pc = "done"
    /\ \E i \in 0..(NumLines - 1) :
          /\ Cardinality({r \in Rules : Satisfies(r, i)}) >= 3
          /\ i > 0
          /\ \E k \in 1..Len(errors) : errors[k].line_number < i

(* C9: every call ends with every line searched by every rule; the break   *)
(* of the scan leaves the last rule and the later lines to be searched.    *)
C9_TerminatesHavingEvaluatedAll ==
    <>(/\ pc = "done"
       /\ evaluated = (0..(NumLines - 1)) \X Rules)

C9_Witness ==
    /\ pc = "done"
    /\ evaluated = (0..(NumLines - 1)) \X Rules
    /\ \E i \in BeginLines :
          /\ FirstEndFrom(i) /= -1
          /\ i + 1 < NumLines
          /\ MisplacedMatch(LineAt(i))
          /\ ErrorsAt(i, "misplaced") /= {}

(* C10: the line_number of every tuple is the index of a line of the split *)
(* input on which the rule's pattern was found, and the number shown in    *)
(* the message is that line_number.                                        *)
C10_LineNumberIsMatchedLine ==
    pc = "done" =>
        \A k \in 1..Len(errors) :
            /\ errors[k].line_number \in 0..(NumLines - 1)
            /\ PatternFound(errors[k].message.kind, errors[k].line_number)
            /\ errors[k].message.line = errors[k].line_number

C10_Witness ==
    /\ pc = "done"
    /\ \E k \in LabelErrors :
          /\ FirstEndFrom(errors[k].line_number) > errors[k].line_number
          /\ FirstEndFrom(errors[k].line_number) \notin BeginLines
    /\ \E k \in 1..Len(errors) :
          errors[k].message.kind = "scalar" /\ errors[k].line_number > 0

====
